---- MODULE Spec2Model ----
(***************************************************************************)
(* Model of src/src/server.ts: the SSETransport class (broadcast           *)
(* transport), the MCP Server connected to it, the StreamableHTTP session  *)
(* transport created beside it, and the HTTP request handler of main().    *)
(***************************************************************************)
EXTENDS Integers, Sequences, FiniteSets, TLC

\* ------------------------------------------------------------------ bounds
\* GET requests that open a broadcast stream (http.ServerResponse objects).
MaxConns == 2
\* JSON-RPC messages POSTed on the broadcast path.
MaxReq == 2
\* Keep-alive timer firings in a run.
MaxKeepAlive == 1
\* Calls of SSETransport.close in a run.
MaxClose == 2
\* Stream openings, POSTed messages and keep-alive firings, in total, in the
\* specification that draws every HTTP request.
RouterSteps == 2
\* Concurrent dispatches of the tools/call handler
MaxDispatch == 2

Conns == 1..MaxConns
Reqs == 1..MaxReq
Dispatches == 1..MaxDispatch

\* ------------------------------------------------------------------- state
VARIABLES
  sseConnections,  \* SSETransport.sseConnections: Set<ServerResponse>
  messageQueue,    \* SSETransport.messageQueue: JSONRPCMessage[]
  onmessage,       \* SSETransport.onmessage is set (by server.connect)
  written,         \* per ServerResponse: the frames res.write() accepted
  keepAlive,       \* streams whose setInterval timer is active
  closed,          \* streams whose peer has closed ('close' was emitted)
  nextConn,        \* number of broadcast streams opened so far
  nextReq,         \* number of JSON-RPC messages POSTed so far
  inflight,        \* requests handed to the Server, response not yet sent
  kaCount,         \* keep-alive timer firings so far
  history,         \* the transport calls so far, in order (send / attach)
  sessionId,       \* streamableTransport.sessionId; 0 is undefined
  last,            \* the HTTP exchange handled last: request and response
  caught,          \* the try/catch around handleRequest in that exchange
  toolCall,        \* request.params of the tools/call dispatched last
  backendCalls,    \* the backend operations that dispatch invoked, in order
  envelope,        \* what the tools/call handler returned (or threw)
  toolLog,         \* the logToolResponse calls made for that dispatch
  searchers,       \* the module variable `searchers`: 0 is null
  constructed,     \* number of registry objects constructed so far
  dispatches       \* the tools/call dispatches that run concurrently

vars == <<sseConnections, messageQueue, onmessage, written, keepAlive, closed,
          nextConn, nextReq, inflight, kaCount, history, sessionId, last,
          caught, toolCall, backendCalls, envelope, toolLog, searchers,
          constructed, dispatches>>

transportVars == <<sseConnections, messageQueue, onmessage, written, history>>
streamVars == <<keepAlive, closed, nextConn, kaCount>>
registryVars == <<searchers, constructed, dispatches>>
engineVars == <<toolCall, backendCalls, envelope, toolLog, registryVars>>

\* --------------------------------------------------------------- sequences
Range(s) == {s[i] : i \in 1..Len(s)}

\* The elements of s at the positions not in drop, in order.
RECURSIVE Keep(_, _)
Keep(s, drop) ==
  IF s = <<>> THEN <<>>
  ELSE LET rest == Keep(Tail(s), {i - 1 : i \in drop \ {1}})
       IN IF 1 \in drop THEN rest ELSE <<Head(s)>> \o rest

IsPrefix(p, s) == Len(p) <= Len(s) /\ SubSeq(s, 1, Len(p)) = p

NoDup(s) == \A i, j \in 1..Len(s) : s[i] = s[j] => i = j

\* ------------------------------------------------------------------ frames
\* res.write(`event: message\ndata: ${data}\n\n`)
EventFrame(m) == <<"event: message", m>>
\* res.write(': keepalive\n\n'), an SSE comment line
KeepAliveFrame == <<": keepalive", 0>>

IsEvent(f) == f[1] = "event: message"
\* The messages of the event frames of a stream, in order.
Events(s) == LET ev == SelectSeq(s, IsEvent) IN [i \in 1..Len(ev) |-> ev[i][2]]

\* A JSON-RPC response is identified by the id of its request.
Response(r) == r

\* ------------------------------------------------------- HTTP requests
Methods == {"GET", "POST", "OPTIONS", "DELETE"}
Paths == {"/mcp", "/sse", "/health", "/other"}
\* What a POST body holds.  JSON.parse throws on "malformed"; "not-jsonrpc" is
\* JSON that is no JSON-RPC message; "notification" carries no id; the others
\* are JSON-RPC requests with the method named.
RequestKinds == {"initialize", "ping", "tools/list", "tools/call", "unknown-method"}
BodyKinds == RequestKinds \cup {"notification", "not-jsonrpc", "malformed"}
WellFormed == RequestKinds \cup {"notification"}
\* The Mcp-Session-Id header: absent, the identifier the session transport
\* generated, or some other value.
McpHeaders == {"absent", "current", "other"}

\* hasSessionId is url.searchParams.has('sessionId').
ProtocolPaths == {"/mcp", "/sse"}

\* Only a POST carries a body.  Off the protocol endpoint nothing reads the
\* body or the Mcp-Session-Id header: one body and no header stand for all.
\* xSessionId is whether the request has an X-Session-Id header, which only
\* logAccess is passed: these requests come without it.
Requests ==
  {q \in [method : Methods, path : Paths, hasSessionId : BOOLEAN,
          mcpSession : McpHeaders, body : BodyKinds \cup {"none"},
          xSessionId : {FALSE}] :
     /\ (q.body = "none") <=> (q.method # "POST")
     /\ q.path \notin ProtocolPaths =>
          q.mcpSession = "absent" /\ q.body \in {"none", "ping"}}

NoRequest ==
  [method |-> "none", path |-> "none", hasSessionId |-> FALSE,
   mcpSession |-> "absent", body |-> "none", xSessionId |-> FALSE]

\* The headers the request handler sets with res.setHeader before it looks
\* at the method or the path.
CorsHeaders ==
  [h \in {"Access-Control-Allow-Origin", "Access-Control-Allow-Methods",
          "Access-Control-Allow-Headers", "Access-Control-Expose-Headers"} |->
     CASE h = "Access-Control-Allow-Origin" -> "*"
       [] h = "Access-Control-Allow-Methods" -> "GET, POST, DELETE, OPTIONS"
       [] h = "Access-Control-Allow-Headers" -> "Content-Type, X-Session-Id"
       [] h = "Access-Control-Expose-Headers" -> "X-Session-Id"]

\* The headers a branch hands to res.writeHead with the status code.
ContentType(type) == [h \in {"Content-Type"} |-> type]

Given(branch, body) ==
  IF body = "empty" THEN <<>>
  ELSE IF branch = "stream" THEN
    [h \in {"Content-Type", "Cache-Control", "Connection",
            "Access-Control-Allow-Origin"} |->
       CASE h = "Content-Type" -> "text/event-stream"
         [] h = "Cache-Control" -> "no-cache"
         [] h = "Connection" -> "keep-alive"
         [] h = "Access-Control-Allow-Origin" -> "*"]
  ELSE IF body = "event-stream" THEN ContentType("text/event-stream")
  ELSE IF body = "not-found-text" THEN ContentType("text/plain")
  ELSE ContentType("application/json")

\* A writeHead that sends its own headers and drops those set before it.
WriteHeadReplaces(given) == given

\* res.writeHead(status, headers): the headers given are merged over those
\* set with res.setHeader, and the whole is sent.
WriteHead(given) ==
  [h \in DOMAIN given \cup DOMAIN CorsHeaders |->
     IF h \in DOMAIN given THEN given[h] ELSE CorsHeaders[h]]

\* The response of an exchange: the branch that handled it, the status code,
\* the body, the JSON-RPC id of a request it carried (0: none), the broadcast
\* stream it opened (0: none), the JSON-RPC responses written to this HTTP
\* response, and the session identifier associated with it (0: none).
Exchange(q, branch, status, body, rpcId, conn, responses, session) ==
  [req |-> q, branch |-> branch, status |-> status, body |-> body,
   rpcId |-> rpcId, conn |-> conn, responses |-> responses,
   session |-> session, headers |-> WriteHead(Given(branch, body))]

\* ------------------------------------------------------ SSETransport
\* A send loop without the per-write try/catch: the first throwing write
\* ends the loop (connections are visited in insertion order).
SendWrittenAbort(open, failed) == {c \in open : \A f \in failed : c < f}

\* send: the connections the for-loop wrote the frame to.  Each write is in
\* its own try/catch, so a throwing write skips that connection only.
SendWritten(open, failed) == open \ failed

\* A catch that clears the whole set instead of deleting one connection.
SendRemainingClear(open, failed) == IF failed = {} THEN open ELSE {}

\* send: sseConnections after the loop; the catch deletes the connection
\* whose write threw.
SendRemaining(open, failed) == open \ failed

\* A send that queues the message whether or not a connection is open.
SendQueueAlways(queue, open, m) == Append(queue, m)

\* send: messageQueue after the call; the message is pushed only in the
\* else branch of `sseConnections.size > 0`.
SendQueue(queue, open, m) == IF Cardinality(open) > 0 THEN queue ELSE Append(queue, m)

\* send: whether the call rejects.  The catch around each write does not
\* rethrow, and the else branch cannot throw.
SendRaises(open, failed) == FALSE

\* send(message), with `failed` the connections whose res.write throws.
send(m, failed) ==
  /\ failed \subseteq sseConnections
  /\ written' =
       [c \in Conns |->
          IF c \in SendWritten(sseConnections, failed)
          THEN Append(written[c], EventFrame(m))
          ELSE written[c]]
  /\ sseConnections' = SendRemaining(sseConnections, failed)
  /\ messageQueue' = SendQueue(messageQueue, sseConnections, m)
  /\ history' = Append(history,
       [op |-> "send", msg |-> m, conn |-> 0, open |-> sseConnections,
        failed |-> failed, raised |-> SendRaises(sseConnections, failed)])

\* addSSEConnection: the queued messages whose res.write did not throw, in
\* queue order; a throwing write is caught and the loop goes on.
ReplayWritten(queue, failedAt) == Keep(queue, failedAt)

\* An attach that leaves the queue as it was.
QueueKept(queue) == queue

\* addSSEConnection: `this.messageQueue = []` after the replay loop.
QueueAfterAttach(queue) == <<>>

\* addSSEConnection: sseConnections after the call.  The catch of the replay
\* loop only logs; the connection stays in the set.
AttachConnections(open, res, failedAt) == open \cup {res}

\* addSSEConnection(res), with failedAt the queue positions whose write throws.
addSSEConnection(res, failedAt) ==
  /\ failedAt \subseteq 1..Len(messageQueue)
  /\ sseConnections' = AttachConnections(sseConnections, res, failedAt)
  /\ written' =
       [written EXCEPT ![res] =
          @ \o [i \in 1..Len(ReplayWritten(messageQueue, failedAt)) |->
                  EventFrame(ReplayWritten(messageQueue, failedAt)[i])]]
  /\ messageQueue' = QueueAfterAttach(messageQueue)
  /\ history' = Append(history,
       [op |-> "attach", msg |-> 0, conn |-> res, open |-> sseConnections,
        failed |-> {}, raised |-> FALSE])

\* close(): the connections on which res.end() is called.
Ended(open) == open

\* close(): onclose is called when it is set; server.connect sets it
\* together with onmessage.
Signalled(handlerSet) == handlerSet

\* close(): res.end() on every open connection, sseConnections.clear(),
\* onclose().
close ==
  /\ history' = Append(history,
       [op |-> "close", msg |-> 0, conn |-> 0, open |-> sseConnections,
        failed |-> {}, raised |-> FALSE, ended |-> Ended(sseConnections),
        signalled |-> Signalled(onmessage)])
  /\ sseConnections' = {}
  /\ UNCHANGED <<messageQueue, onmessage, written, streamVars, nextReq,
                 inflight, sessionId, last, caught, engineVars>>

\* A transport that hands no message to the Server.
HandedNever(kind, handlerSet) == FALSE

\* handleIncomingMessage(message): hands the message to onmessage when it is
\* set.  The Server (Protocol) registered there starts the request handler
\* of a JSON-RPC request and answers later through transport.send; it sends
\* nothing for a notification and reports a non-JSON-RPC value to onerror.
Handed(kind, handlerSet) == handlerSet /\ kind \in RequestKinds

handleIncomingMessage(r, kind) ==
  inflight' = IF Handed(kind, onmessage) THEN inflight \cup {r} ELSE inflight

\* ------------------------------------------- StreamableHTTPServerTransport
\* main() connects the Server to sseTransport only; nothing sets
\* streamableTransport.onmessage, and nothing calls streamableTransport.send.
StreamableConnected == FALSE

\* validateSession of the session transport: the status it rejects with, or
\* 0 when the request may proceed.
ValidateSession(q) ==
  IF sessionId = 0 THEN 400
  ELSE IF q.mcpSession = "absent" THEN 400
  ELSE IF q.mcpSession = "other" THEN 404
  ELSE 0

\* The JSON-RPC responses written to the HTTP response of a delegated POST:
\* a response is written when a connected server answers the request.
SessionResponses(kind, id, connected) ==
  IF connected /\ kind \in RequestKinds THEN <<id>> ELSE <<>>

\* streamableTransport.handleRequest(req, res)
handleRequest(q) ==
  LET id == nextReq + 1 IN
  IF q.method = "POST" THEN
    IF q.body \notin WellFormed THEN
      /\ last' = Exchange(q, "session", 400, "jsonrpc-error", 0, 0, <<>>, 0)
      /\ UNCHANGED sessionId
    ELSE IF q.body = "initialize" THEN
      IF sessionId # 0 THEN
        /\ last' = Exchange(q, "session", 400, "jsonrpc-error", 0, 0, <<>>, 0)
        /\ UNCHANGED sessionId
      ELSE
        /\ sessionId' = 1
        /\ last' = Exchange(q, "session", 200, "event-stream", id, 0,
                            SessionResponses(q.body, id, StreamableConnected), 1)
    ELSE IF ValidateSession(q) # 0 THEN
      /\ last' = Exchange(q, "session", ValidateSession(q), "jsonrpc-error",
                          0, 0, <<>>, 0)
      /\ UNCHANGED sessionId
    ELSE IF q.body = "notification" THEN
      /\ last' = Exchange(q, "session", 202, "empty", 0, 0, <<>>, sessionId)
      /\ UNCHANGED sessionId
    ELSE
      /\ last' = Exchange(q, "session", 200, "event-stream", id, 0,
                          SessionResponses(q.body, id, StreamableConnected),
                          sessionId)
      /\ UNCHANGED sessionId
  ELSE
    /\ UNCHANGED sessionId
    /\ IF ValidateSession(q) # 0
       THEN last' = Exchange(q, "session", ValidateSession(q), "jsonrpc-error",
                             0, 0, <<>>, 0)
       ELSE last' = Exchange(q, "session", 200,
                             IF q.method = "GET" THEN "event-stream" ELSE "empty",
                             0, 0, <<>>, sessionId)

\* ------------------------------------- the try/catch of the session branch
\* How the awaited handleRequest ends: it returns, it throws before it has
\* committed the response headers, or it throws after it has committed them.
Faults == {"none", "before", "after"}

\* The exchange of a handler that has no try/catch around handleRequest.
NoCatch == [thrown |-> FALSE, headersSent |-> FALSE, writes |-> 0, logged |-> 0]

\* A catch block that answers 500 without looking at res.headersSent.
CatchWritesAlways(headersSent) == 1

\* The responses the catch block writes: "if (!res.headersSent) writeHead(500,
\* json); end(error body)".
CatchWrites(headersSent) == IF headersSent THEN 0 ELSE 1

\* The catch block: logError, then the guarded 500. writes counts the
\* responses begun on res in the whole exchange.
Catch(headersSent) ==
  [thrown |-> TRUE, headersSent |-> headersSent,
   writes |-> (IF headersSent THEN 1 ELSE 0) + CatchWrites(headersSent),
   logged |-> 1]

\* ---------------------------------------------------------- HTTP router

\* An if-chain that looks at the session identifier first of all.
RouteSessionFirst(q) ==
  IF q.path \in ProtocolPaths /\ q.hasSessionId THEN "session"
  ELSE IF q.method = "OPTIONS" THEN "options"
  ELSE IF q.path = "/health" /\ q.method = "GET" THEN "health"
  ELSE IF q.path \in ProtocolPaths THEN
    IF q.method = "GET" THEN "stream"
    ELSE IF q.method = "POST" THEN "post"
    ELSE "unsupported"
  ELSE "notfound"

\* An if-chain that looks at the method before the session identifier.
RouteMethodFirst(q) ==
  IF q.method = "OPTIONS" THEN "options"
  ELSE IF q.path = "/health" /\ q.method = "GET" THEN "health"
  ELSE IF q.path \in ProtocolPaths THEN
    IF q.method = "GET" THEN "stream"
    ELSE IF q.method = "POST" THEN "post"
    ELSE IF q.hasSessionId THEN "session"
    ELSE "unsupported"
  ELSE "notfound"

\* The if-chain of the request handler: the branch that answers the request.
Route(q) ==
  IF q.method = "OPTIONS" THEN "options"
  ELSE IF q.path = "/health" /\ q.method = "GET" THEN "health"
  ELSE IF q.path \in ProtocolPaths THEN
    IF q.hasSessionId THEN "session"
    ELSE IF q.method = "GET" THEN "stream"
    ELSE IF q.method = "POST" THEN "post"
    ELSE "unsupported"
  ELSE "notfound"

\* OPTIONS: writeHead(200); end()
HttpOptions(q) ==
  /\ Route(q) = "options"
  /\ last' = Exchange(q, "options", 200, "empty", 0, 0, <<>>, 0)
  /\ caught' = NoCatch
  /\ UNCHANGED <<transportVars, streamVars, nextReq, inflight, sessionId>>
  /\ UNCHANGED engineVars

\* A health check that drops what is pending on the broadcast transport.
HttpHealthDrains(q) ==
  /\ Route(q) = "health"
  /\ last' = Exchange(q, "health", 200, "health-json", 0, 0, <<>>, 0)
  /\ caught' = NoCatch
  /\ messageQueue' = <<>>
  /\ UNCHANGED <<sseConnections, onmessage, written, history, streamVars,
                 nextReq, inflight, sessionId>>
  /\ UNCHANGED engineVars

\* GET /health: writeHead(200, application/json) and the payload with
\* status 'healthy', name, version, transport and sessionId.
HttpHealth(q) ==
  /\ Route(q) = "health"
  /\ last' = Exchange(q, "health", 200, "health-json", 0, 0, <<>>, 0)
  /\ caught' = NoCatch
  /\ UNCHANGED <<transportVars, streamVars, nextReq, inflight, sessionId>>
  /\ UNCHANGED engineVars

\* Protocol endpoint with sessionId in the query: handleRequest is awaited.
HttpSession(q, fault) ==
  /\ Route(q) = "session"
  /\ IF fault = "before"
     THEN /\ last' = Exchange(q, "session", 500, "error-json", 0, 0, <<>>, 0)
          /\ UNCHANGED sessionId
     ELSE handleRequest(q)
  /\ caught' = IF fault = "none"
               THEN [NoCatch EXCEPT !.headersSent = TRUE, !.writes = 1]
               ELSE Catch(fault = "after")
  /\ UNCHANGED <<transportVars, streamVars, nextReq, inflight>>
  /\ UNCHANGED engineVars

\* GET on the protocol endpoint without sessionId: writeHead(200, event
\* stream), addSSEConnection(res), setInterval(keep-alive), req.on('close').
HttpGetStream(q, failedAt) ==
  LET res == nextConn + 1 IN
  /\ Route(q) = "stream"
  /\ nextConn' = res
  /\ addSSEConnection(res, failedAt)
  /\ keepAlive' = keepAlive \cup {res}
  /\ last' = Exchange(q, "stream", 200, "event-stream", 0, res, <<>>, 0)
  /\ caught' = NoCatch
  /\ UNCHANGED <<onmessage, closed, kaCount, nextReq, inflight, sessionId>>
  /\ UNCHANGED engineVars

\* An 'end' handler that acknowledges the body before it parses it.
PostStatusAccepts(kind) == 202

\* The status and body of the 'end' handler of a POST without sessionId:
\* 202 after JSON.parse and handleIncomingMessage, 400 when JSON.parse throws.
PostStatus(kind) == IF kind = "malformed" THEN 400 ELSE 202
PostBody(kind) == IF kind = "malformed" THEN "error-json" ELSE "accepted-json"

\* POST on the protocol endpoint without sessionId, taken when the body has
\* arrived ('end'); until then the handler only accumulates the body.
HttpPostMessage(q) ==
  LET r == nextReq + 1 IN
  /\ Route(q) = "post"
  /\ nextReq' = r
  /\ IF q.body = "malformed"
     THEN UNCHANGED inflight
     ELSE handleIncomingMessage(r, q.body)
  /\ last' = Exchange(q, "post", PostStatus(q.body), PostBody(q.body),
                      IF q.body \in RequestKinds THEN r ELSE 0, 0, <<>>, 0)
  /\ caught' = NoCatch
  /\ UNCHANGED <<transportVars, streamVars, sessionId>>
  /\ UNCHANGED engineVars

\* Any other method on the protocol endpoint without sessionId.
HttpUnsupported(q) ==
  /\ Route(q) = "unsupported"
  /\ last' = Exchange(q, "unsupported", 400, "error-json", 0, 0, <<>>, 0)
  /\ caught' = NoCatch
  /\ UNCHANGED <<transportVars, streamVars, nextReq, inflight, sessionId>>
  /\ UNCHANGED engineVars

\* Default response.
HttpNotFound(q) ==
  /\ Route(q) = "notfound"
  /\ last' = Exchange(q, "notfound", 404, "not-found-text", 0, 0, <<>>, 0)
  /\ caught' = NoCatch
  /\ UNCHANGED <<transportVars, streamVars, nextReq, inflight, sessionId>>
  /\ UNCHANGED engineVars

\* ------------------------------------------------- asynchronous steps
\* A request handler of the Server completes and the Protocol layer passes
\* the response to transport.send.
ServerRespond(r, failed) ==
  /\ r \in inflight
  /\ inflight' = inflight \ {r}
  /\ send(Response(r), failed)
  /\ UNCHANGED <<onmessage, streamVars, nextReq, sessionId, last>>
  /\ UNCHANGED <<caught, engineVars>>

\* The keep-alive interval of a stream fires: res.write(': keepalive\n\n');
\* a throwing write clears the interval.
KeepAliveTick(c, ok) ==
  /\ c \in keepAlive
  /\ kaCount < MaxKeepAlive
  /\ kaCount' = kaCount + 1
  /\ IF ok
     THEN /\ written' = [written EXCEPT ![c] = Append(@, KeepAliveFrame)]
          /\ UNCHANGED keepAlive
     ELSE /\ keepAlive' = keepAlive \ {c}
          /\ UNCHANGED written
  /\ UNCHANGED <<sseConnections, messageQueue, onmessage, history, closed,
                 nextConn, nextReq, inflight, sessionId, last>>
  /\ UNCHANGED <<caught, engineVars>>

\* The peer closes a stream: res 'close' deletes it from sseConnections and
\* req 'close' clears its keep-alive interval.
PeerClose(c) ==
  /\ c \in 1..nextConn
  /\ c \notin closed
  /\ closed' = closed \cup {c}
  /\ sseConnections' = sseConnections \ {c}
  /\ keepAlive' = keepAlive \ {c}
  /\ UNCHANGED <<messageQueue, onmessage, written, history, nextConn, kaCount,
                 nextReq, inflight, sessionId, last>>
  /\ UNCHANGED <<caught, engineVars>>

\* --------------------------------------------------- tools/call dispatch
\* The handler registered for CallToolRequestSchema: the tool catalog, the
\* backend registry and the switch over the tool name.

\* The keys of the searchers object, in insertion order (Object.keys order).
RegistryKeys ==
  <<"arxiv", "webofscience", "pubmed", "wos", "biorxiv", "medrxiv", "semantic",
    "iacr", "googlescholar", "scholar", "scihub", "sciencedirect", "springer",
    "wiley", "scopus">>

Registered == Range(RegistryKeys)

\* The searcher instance a registry key holds: wos and scholar hold the
\* instances of webofscience and googlescholar.
Backend(key) ==
  IF key = "wos" THEN "webofscience"
  ELSE IF key = "scholar" THEN "googlescholar"
  ELSE key

Instances == {Backend(k) : k \in Registered}

\* The names of the TOOLS catalog.
Tools ==
  {"debug_pubmed_test", "search_papers", "search_arxiv", "search_webofscience",
   "search_pubmed", "search_biorxiv", "search_medrxiv",
   "search_semantic_scholar", "search_iacr", "download_paper",
   "search_google_scholar", "get_paper_by_doi", "search_scihub",
   "check_scihub_mirrors", "get_platform_status", "search_sciencedirect",
   "search_springer", "search_wiley", "search_scopus"}

\* The tools whose case calls search on one fixed registry key, and the key.
DirectTools ==
  {"search_arxiv", "search_pubmed", "search_biorxiv", "search_medrxiv",
   "search_semantic_scholar", "search_iacr", "search_google_scholar"}

CredentialTools ==
  {"search_webofscience", "search_sciencedirect", "search_springer",
   "search_wiley", "search_scopus"}

SearchKey(name) ==
  CASE name = "search_arxiv" -> "arxiv"
    [] name = "search_pubmed" -> "pubmed"
    [] name = "search_biorxiv" -> "biorxiv"
    [] name = "search_medrxiv" -> "medrxiv"
    [] name = "search_semantic_scholar" -> "semantic"
    [] name = "search_iacr" -> "iacr"
    [] name = "search_google_scholar" -> "googlescholar"
    [] name = "search_webofscience" -> "webofscience"
    [] name = "search_sciencedirect" -> "sciencedirect"
    [] name = "search_springer" -> "springer"
    [] name = "search_wiley" -> "wiley"
    [] name = "search_scopus" -> "scopus"

\* The environment variables the handler tests before a search.
EnvKeys ==
  {"WOS_API_KEY", "ELSEVIER_API_KEY", "SPRINGER_API_KEY", "WILEY_TDM_TOKEN"}

\* The environment variable a backend's credential comes from ("": none);
\* the backends with one are those whose search case tests process.env.
CredentialOf(backend) ==
  CASE backend = "webofscience" -> "WOS_API_KEY"
    [] backend \in {"sciencedirect", "scopus"} -> "ELSEVIER_API_KEY"
    [] backend = "springer" -> "SPRINGER_API_KEY"
    [] backend = "wiley" -> "WILEY_TDM_TOKEN"
    [] OTHER -> ""

RequiresCredential(backend) == CredentialOf(backend) # ""

\* ------------------------------------------------------ declared schemas
\* The shape of request.params.arguments against the tool's inputSchema.
ArgShapes ==
  {"valid", "omitted", "missing-required", "wrong-type", "out-of-range"}

\* The platform argument: a registry key, 'all', not given, a string that
\* names nothing, or a string that names a property every object inherits.
PlatformArgs == Registered \cup {"all", "absent", "nonesuch", "constructor"}

\* The tools whose schema has a platform property, and its enum.
PlatformTools == {"search_papers", "download_paper", "get_paper_by_doi"}

PlatformEnum(name) ==
  CASE name = "search_papers" -> Registered \cup {"all"}
    [] name = "download_paper" ->
         {"arxiv", "biorxiv", "medrxiv", "semantic", "iacr", "scihub",
          "springer", "wiley"}
    [] name = "get_paper_by_doi" -> {"arxiv", "webofscience", "all"}
    [] OTHER -> {}

\* The tools whose schema declares a maxResults minimum and maximum.
RangedTools ==
  (DirectTools \cup CredentialTools) \cup {"debug_pubmed_test", "search_papers"}

\* The tools whose schema has no required property.
NoRequired == {"check_scihub_mirrors", "get_platform_status"}

\* The tools/call requests drawn: the unknown name included.
Calls ==
  {c \in [name : Tools \cup {"no_such_tool"}, args : ArgShapes,
          platform : PlatformArgs, env : SUBSET EnvKeys, download : BOOLEAN,
          flag : BOOLEAN] :
     /\ c.name \notin PlatformTools => c.platform = "absent"
     /\ c.args = "omitted" => c.platform = "absent" /\ ~c.flag
     /\ c.args = "out-of-range" => c.name \in RangedTools
     /\ c.args = "missing-required" => c.name \in Tools \ NoRequired
     /\ c.name \notin {"search_scihub", "check_scihub_mirrors"} => ~c.flag
     /\ c.name # "download_paper" => ~c.download}

\* The arguments violate the declared schema of the (known) tool.
Violates(c) ==
  \/ c.args \in {"missing-required", "wrong-type", "out-of-range"}
  \/ c.args = "omitted" /\ c.name \notin NoRequired
  \/ c.platform \notin PlatformEnum(c.name) \cup {"absent"}
  \/ c.name = "download_paper" /\ c.platform = "absent"

NoCall ==
  [name |-> "", args |-> "valid", platform |-> "absent", env |-> {},
   download |-> FALSE, flag |-> FALSE]

\* ----------------------------------------------------- backend operations
\* How a backend operation ends: it throws, or it resolves with nothing
\* (empty list, null paper, invalid key) or with something.
Outcomes == {"fail", "none", "some"}

Items(o) == IF o = "some" THEN 1 ELSE 0

\* One invocation of a backend operation through a registry key.
Op(key, op, o) == [key |-> key, backend |-> Backend(key), op |-> op, outcome |-> o]

\* The sets of backends that throw (or that hold the paper) in one call.
BackendSets == {{}} \cup {{b} : b \in Instances} \cup {Instances}

\* The outcome of every backend in one call.
OutcomeMap(failing, holding) ==
  [b \in Instances |->
     IF b \in failing THEN "fail" ELSE IF b \in holding THEN "some" ELSE "none"]

\* ------------------------------------------------- the cases of the switch
\* A case ends with a returned envelope or with a thrown error.
Return(text, count) ==
  [kind |-> "return", isError |-> FALSE, text |-> text, count |-> count,
   report |-> <<>>, failure |-> FALSE]

\* A returned envelope whose text reports the failure of an operation.
ReturnFailure(text, count) == [Return(text, count) EXCEPT !.failure = TRUE]

Throw(message) ==
  [kind |-> "throw", isError |-> FALSE, text |-> message, count |-> 0,
   report |-> <<>>, failure |-> TRUE]

Ran(calls, ret) == [calls |-> calls, ret |-> ret]

\* currentSearchers[platform]: a searcher, undefined, or a property that the
\* object inherits (truthy, and without the searcher's methods).
Lookup(platform) ==
  IF platform \in Registered THEN "searcher"
  ELSE IF platform = "constructor" THEN "inherited"
  ELSE "undefined"

\* A switch that sends an unlisted name to the first search case.
CaseFallsThrough(name) == IF name \in Tools THEN name ELSE "search_papers"

\* switch (name): the case taken.
Case(name) == IF name \in Tools THEN name ELSE "default"

\* A search whose result the case returns and whose failure it lets escape.
SearchAndReturn(key, o) ==
  Ran(<<Op(key, "search", o)>>,
      IF o = "fail" THEN Throw("backend-failure") ELSE Return("found", Items(o)))

\* case 'debug_pubmed_test': a new PubMedSearcher, search inside its own
\* try/catch, which returns the error text as an ordinary envelope.
DebugPubmedTest(c, o) ==
  IF c.args = "omitted" THEN Ran(<<>>, Throw("type-error"))
  ELSE Ran(<<[key |-> "new", backend |-> "pubmed-test", op |-> "search",
              outcome |-> o]>>,
           IF o = "fail" THEN ReturnFailure("debug-error", 0)
           ELSE Return("debug-result", Items(o)))

\* Object.keys(currentSearchers) without 'wos' and 'scholar'.
AvailablePlatforms == Registered \ {"wos", "scholar"}

\* A random pick whose failure is swallowed without a second search.
FallbackNone(o1, o2) == <<>>

\* The catch of the random pick: search arxiv when the pick has thrown.
Fallback(o1, o2) == IF o1 = "fail" THEN <<Op("arxiv", "search", o2)>> ELSE <<>>

\* The papers pushed to results by the random pick and its fallback.
AllResults(o1, tail) ==
  IF o1 # "fail" THEN Items(o1)
  ELSE IF tail = <<>> THEN 0 ELSE Items(tail[1].outcome)

\* case 'search_papers'
SearchPapers(c, pick, o1, o2) ==
  IF c.args = "omitted" THEN Ran(<<>>, Throw("type-error"))
  ELSE IF c.platform \in {"all", "absent"} THEN
    Ran(<<Op(pick, "search", o1)>> \o Fallback(o1, o2),
        Return("found", AllResults(o1, Fallback(o1, o2))))
  ELSE IF Lookup(c.platform) = "undefined" THEN
    Ran(<<>>, Throw("unsupported-platform"))
  ELSE IF Lookup(c.platform) = "inherited" THEN Ran(<<>>, Throw("type-error"))
  ELSE SearchAndReturn(c.platform, o1)

\* case 'search_arxiv', 'search_pubmed', ...: search on the tool's backend.
SearchDirect(c, o) ==
  IF c.args = "omitted" THEN Ran(<<>>, Throw("type-error"))
  ELSE SearchAndReturn(SearchKey(c.name), o)

\* case 'search_webofscience', 'search_springer', ...: the environment
\* variable is tested before the search.
SearchCredentialed(c, o) ==
  IF c.args = "omitted" THEN Ran(<<>>, Throw("type-error"))
  ELSE IF CredentialOf(SearchKey(c.name)) \notin c.env THEN
    Ran(<<>>, Throw("missing-credential"))
  ELSE SearchAndReturn(SearchKey(c.name), o)

\* case 'download_paper'
DownloadPaper(c, o) ==
  IF c.args = "omitted" THEN Ran(<<>>, Throw("type-error"))
  ELSE IF Lookup(c.platform) = "undefined" THEN
    Ran(<<>>, Throw("unsupported-platform"))
  ELSE IF Lookup(c.platform) = "inherited" THEN Ran(<<>>, Throw("type-error"))
  ELSE IF ~c.download THEN Ran(<<>>, Throw("download-not-supported"))
  ELSE Ran(<<Op(c.platform, "downloadPdf", o)>>,
           IF o = "fail" THEN Throw("backend-failure")
           ELSE Return("downloaded", 1))

\* The registry keys the 'all' loop of get_paper_by_doi visits, in order:
\* Object.entries without 'wos'.
DoiKeys == SelectSeq(RegistryKeys, LAMBDA k : k # "wos")

\* A loop that the first throwing backend ends.
DoiAllUntilFailure(out) ==
  LET all == [i \in 1..Len(DoiKeys) |->
                Op(DoiKeys[i], "getPaperByDoi", out[Backend(DoiKeys[i])])]
      bad == {i \in 1..Len(all) : all[i].outcome = "fail"}
  IN IF bad = {} THEN all
     ELSE SubSeq(all, 1, CHOOSE i \in bad : \A j \in bad : i <= j)

\* The 'all' loop: getPaperByDoi on every visited key, each in its own
\* try/catch.
DoiAll(out) ==
  [i \in 1..Len(DoiKeys) |->
     Op(DoiKeys[i], "getPaperByDoi", out[Backend(DoiKeys[i])])]

\* results.length after the calls: one entry per call that found the paper.
Found(calls) == Len(SelectSeq(calls, LAMBDA e : e.outcome = "some"))

\* The envelope of get_paper_by_doi for results.length papers.
DoiEnvelope(n) ==
  IF n = 0 THEN Return("no-paper-found", 0) ELSE Return("found", n)

\* case 'get_paper_by_doi'
GetPaperByDoi(c, out) ==
  IF c.args = "omitted" THEN Ran(<<>>, Throw("type-error"))
  ELSE IF c.platform \in {"all", "absent"} THEN
    Ran(DoiAll(out), DoiEnvelope(Found(DoiAll(out))))
  ELSE IF Lookup(c.platform) = "undefined" THEN
    Ran(<<>>, Throw("unsupported-platform"))
  ELSE IF Lookup(c.platform) = "inherited" THEN Ran(<<>>, Throw("type-error"))
  ELSE
    LET o == out[Backend(c.platform)] IN
    Ran(<<Op(c.platform, "getPaperByDoi", o)>>,
        IF o = "fail" THEN Throw("backend-failure") ELSE DoiEnvelope(Items(o)))

\* case 'search_scihub': search, then downloadPdf (in its own try/catch) when
\* it was asked for and a paper with a pdfUrl was found.
SearchScihub(c, o1, o2) ==
  IF c.args = "omitted" THEN Ran(<<>>, Throw("type-error"))
  ELSE IF o1 = "fail" THEN
    Ran(<<Op("scihub", "search", o1)>>, Throw("backend-failure"))
  ELSE IF o1 = "none" THEN
    Ran(<<Op("scihub", "search", o1)>>, Return("no-paper-found", 0))
  ELSE
    Ran(<<Op("scihub", "search", o1)>>
          \o (IF c.flag THEN <<Op("scihub", "downloadPdf", o2)>> ELSE <<>>),
        IF c.flag /\ o2 = "fail" THEN ReturnFailure("found-download-failed", 1)
        ELSE Return("found", 1))

\* case 'check_scihub_mirrors'
CheckScihubMirrors(c, o) ==
  IF c.args = "omitted" THEN Ran(<<>>, Throw("type-error"))
  ELSE IF c.flag THEN
    Ran(<<Op("scihub", "forceHealthCheck", o)>>,
        IF o = "fail" THEN Throw("backend-failure")
        ELSE Return("mirror-status", 0))
  ELSE Ran(<<>>, Return("mirror-status", 0))

\* The registry keys the loop of get_platform_status visits.
StatusKeys == SelectSeq(RegistryKeys, LAMBDA k : k \notin {"wos", "scholar"})

\* A loop that validates the key of every backend that requires one.
ValidatesWheneverRequired(backend, env) == RequiresCredential(backend)

\* get_platform_status: "if (capabilities.requiresApiKey) if (hasApiKey)":
\* validateApiKey is called.
Validates(backend, env) ==
  RequiresCredential(backend) /\ CredentialOf(backend) \in env

\* get_platform_status: apiKeyStatus of a backend, o the outcome of its
\* validateApiKey when that is called.
ApiKeyStatus(backend, env, o) ==
  IF ~RequiresCredential(backend) THEN "not_required"
  ELSE IF ~Validates(backend, env) THEN "missing"
  ELSE IF o = "some" THEN "valid" ELSE "invalid"

\* case 'get_platform_status': one statusInfo entry per visited key, with
\* validateApiKey where Validates says so; a throwing validateApiKey ends the
\* loop and the case.
GetPlatformStatus(c, out) ==
  LET keyed == SelectSeq(StatusKeys, LAMBDA k : Validates(Backend(k), c.env))
      all == [i \in 1..Len(keyed) |->
                Op(keyed[i], "validateApiKey", out[Backend(keyed[i])])]
      bad == {i \in 1..Len(all) : all[i].outcome = "fail"}
      statusInfo == [i \in 1..Len(StatusKeys) |->
                       [platform |-> StatusKeys[i],
                        apiKeyStatus |-> ApiKeyStatus(Backend(StatusKeys[i]), c.env,
                                                      out[Backend(StatusKeys[i])])]]
  IN IF bad = {}
     THEN Ran(all, [Return("platform-status", Len(statusInfo))
                      EXCEPT !.report = statusInfo])
     ELSE Ran(SubSeq(all, 1, CHOOSE i \in bad : \A j \in bad : i <= j),
              Throw("backend-failure"))

\* default: throw new Error(`Unknown tool: ${name}`)
UnknownTool(c) == Ran(<<>>, Throw("unknown-tool"))

\* ------------------------------------------------- catch and finally
NoEnvelope ==
  [kind |-> "none", isError |-> FALSE, text |-> "", count |-> 0,
   report |-> <<>>, failure |-> FALSE]

\* A catch block that lets the error go on to the caller.
CatchRethrows(message) ==
  [kind |-> "thrown", isError |-> FALSE, text |-> message, count |-> 0,
   report |-> <<>>, failure |-> TRUE]

\* catch: the envelope "Error executing tool '<name>': <message>", isError.
CatchEnvelope(message) ==
  [kind |-> "return", isError |-> TRUE, text |-> message, count |-> 0,
   report |-> <<>>, failure |-> TRUE]

\* A catch that leaves errorMessage as it was declared.
ErrorMessageUnset(ret) == "undefined"

\* errorMessage when the handler ends: error.message, assigned in the catch,
\* and undefined when the case has returned.
ErrorMessage(ret) == IF ret.kind = "throw" THEN ret.text ELSE "undefined"

\* finally: logToolResponse(name, success, duration, errorMessage)
Finally(name, success, errorMessage) ==
  <<[name |-> name, success |-> success, errorMessage |-> errorMessage]>>

\* ------------------------------------------------- initializeSearchers
\* An initializer without the `if (searchers) return searchers` guard.
InitializeEachCall(current, built) == built + 1

\* initializeSearchers(): the registry object the caller gets.  Registry
\* objects are numbered by construction; 0 is null.  The function has no
\* await: the test, the constructors and the assignment run in one turn.
InitializeSearchers(current, built) ==
  IF current # 0 THEN current ELSE built + 1

\* A dispatch of the tools/call handler: not started, suspended on the first
\* await of its case with the registry it got in currentSearchers, or done.
NotStarted == [name |-> "", pc |-> "idle", registry |-> 0]

\* The handler runs from its entry to the first await of the case: the switch
\* default throws in the same turn, every case awaits a backend or a status.
Begin(d, name) ==
  LET got == InitializeSearchers(searchers, constructed) IN
  /\ dispatches[d].pc = "idle"
  /\ searchers' = got
  /\ constructed' = IF got > constructed THEN got ELSE constructed
  /\ dispatches' =
       [dispatches EXCEPT ![d] =
          [name |-> name,
           pc |-> IF Case(name) = "default" THEN "done" ELSE "suspended",
           registry |-> got]]
  /\ UNCHANGED <<transportVars, streamVars, nextReq, inflight, sessionId,
                 last, caught, toolCall, backendCalls, envelope, toolLog>>

\* The awaited backend operation settles and the handler runs to its end
\* with the currentSearchers it holds.
Resume(d) ==
  /\ dispatches[d].pc = "suspended"
  /\ dispatches' = [dispatches EXCEPT ![d].pc = "done"]
  /\ UNCHANGED <<transportVars, streamVars, nextReq, inflight, sessionId,
                 last, caught, toolCall, backendCalls, envelope, toolLog,
                 searchers, constructed>>

\* The handler around one case of the switch: logToolCall,
\* initializeSearchers, the case, catch, finally.
CallTool(c, ran) ==
  /\ toolCall' = c
  /\ searchers' = InitializeSearchers(searchers, constructed)
  /\ constructed' = IF searchers = 0 THEN constructed + 1 ELSE constructed
  /\ UNCHANGED dispatches
  /\ backendCalls' = ran.calls
  /\ envelope' = IF ran.ret.kind = "throw" THEN CatchEnvelope(ran.ret.text)
                 ELSE ran.ret
  /\ toolLog' = Finally(c.name, ran.ret.kind # "throw", ErrorMessage(ran.ret))
  /\ UNCHANGED <<transportVars, streamVars, nextReq, inflight, sessionId,
                 last, caught>>

\* ------------------------------------------------------ specifications
\* A main() that starts listening while server.connect is still pending.
ServerConnectPending == FALSE

\* main(): `await server.connect(sseTransport)` has completed before
\* http.createServer and httpServer.listen are reached: onmessage is set.
ServerConnect == TRUE

\* The state when httpServer.listen is reached: the transports are
\* constructed and server.connect(sseTransport) has set onmessage.
Init ==
  /\ sseConnections = {}
  /\ messageQueue = <<>>
  /\ onmessage = ServerConnect
  /\ written = [c \in Conns |-> <<>>]
  /\ keepAlive = {}
  /\ closed = {}
  /\ nextConn = 0
  /\ nextReq = 0
  /\ inflight = {}
  /\ kaCount = 0
  /\ history = <<>>
  /\ sessionId = 0
  /\ last = Exchange(NoRequest, "none", 0, "none", 0, 0, <<>>, 0)
  /\ caught = NoCatch
  /\ toolCall = NoCall
  /\ backendCalls = <<>>
  /\ envelope = NoEnvelope
  /\ toolLog = <<>>
  /\ searchers = 0
  /\ constructed = 0
  /\ dispatches = [d \in Dispatches |-> NotStarted]

\* The clients of the broadcast transport: GET /mcp opens a stream and
\* POST /mcp carries a JSON-RPC request, without session identifiers.
BroadcastRequests ==
  {q \in Requests : ~q.hasSessionId /\ q.mcpSession = "absent"
                     /\ q.path = "/mcp" /\ q.body \in {"none", "tools/list"}}

GetStream ==
  \E q \in BroadcastRequests : \E failedAt \in SUBSET (1..Len(messageQueue)) :
    nextConn < MaxConns /\ HttpGetStream(q, failedAt)

PostMessage ==
  \E q \in BroadcastRequests : nextReq < MaxReq /\ HttpPostMessage(q)

Respond == \E r \in inflight : \E failed \in SUBSET sseConnections :
  ServerRespond(r, failed)

KeepAlive == \E c \in keepAlive : \E ok \in BOOLEAN : KeepAliveTick(c, ok)

Close == \E c \in 1..nextConn : PeerClose(c)

Next == GetStream \/ PostMessage \/ Respond \/ KeepAlive \/ Close

\* The broadcast transport under its clients and the server's responses.
Spec == Init /\ [][Next]_vars

\* Every HTTP request, on every path, with every method.
RouterBudget ==
  /\ nextConn + nextReq + kaCount < RouterSteps
  /\ nextConn < MaxConns
  /\ nextReq < MaxReq

Options == \E q \in Requests : HttpOptions(q)

Health == \E q \in Requests : HttpHealth(q)

\* The session branch when handleRequest returns.
Session == \E q \in Requests : HttpSession(q, "none")

RouterGetStream ==
  \E q \in Requests : \E failedAt \in SUBSET (1..Len(messageQueue)) :
    RouterBudget /\ HttpGetStream(q, failedAt)

RouterPostMessage ==
  \E q \in Requests : RouterBudget /\ HttpPostMessage(q)

Unsupported == \E q \in Requests : HttpUnsupported(q)

NotFound == \E q \in Requests : HttpNotFound(q)

RouterKeepAlive ==
  \E c \in keepAlive : \E ok \in BOOLEAN : RouterBudget /\ KeepAliveTick(c, ok)

NextRouter ==
  \/ Options \/ Health \/ Session \/ RouterGetStream \/ RouterPostMessage
  \/ Unsupported \/ NotFound \/ Respond \/ RouterKeepAlive \/ Close

SpecRouter == Init /\ [][NextRouter]_vars

\* -------------------------------------------- the dispatch specification
\* One tools/call request is dispatched from the initial state: the handler
\* keeps nothing between two requests but the searchers it has constructed.
Idle == toolCall = NoCall

\* The requests that switch (name) sends to a case.
Taking(branch) == {c \in Calls : Case(c.name) = branch}

CallDebugPubmedTest ==
  /\ Idle
  /\ \E c \in Taking("debug_pubmed_test") : \E o \in Outcomes :
       CallTool(c, DebugPubmedTest(c, o))

CallSearchPapers ==
  /\ Idle
  /\ \E c \in Taking("search_papers") : \E pick \in AvailablePlatforms :
       \E o1, o2 \in Outcomes : CallTool(c, SearchPapers(c, pick, o1, o2))

CallSearchDirect ==
  /\ Idle
  /\ \E name \in DirectTools : \E c \in Taking(name) : \E o \in Outcomes :
       CallTool(c, SearchDirect(c, o))

CallSearchCredentialed ==
  /\ Idle
  /\ \E name \in CredentialTools : \E c \in Taking(name) : \E o \in Outcomes :
       CallTool(c, SearchCredentialed(c, o))

CallDownloadPaper ==
  /\ Idle
  /\ \E c \in Taking("download_paper") : \E o \in {"fail", "some"} :
       CallTool(c, DownloadPaper(c, o))

CallGetPaperByDoi ==
  /\ Idle
  /\ \E c \in Taking("get_paper_by_doi") : \E failing, holding \in BackendSets :
       CallTool(c, GetPaperByDoi(c, OutcomeMap(failing, holding)))

CallSearchScihub ==
  /\ Idle
  /\ \E c \in Taking("search_scihub") : \E o1, o2 \in Outcomes :
       CallTool(c, SearchScihub(c, o1, o2))

CallCheckScihubMirrors ==
  /\ Idle
  /\ \E c \in Taking("check_scihub_mirrors") : \E o \in {"fail", "some"} :
       CallTool(c, CheckScihubMirrors(c, o))

CallGetPlatformStatus ==
  /\ Idle
  /\ \E c \in Taking("get_platform_status") : \E failing, holding \in BackendSets :
       CallTool(c, GetPlatformStatus(c, OutcomeMap(failing, holding)))

CallUnknownTool ==
  /\ Idle
  /\ \E c \in Taking("default") : CallTool(c, UnknownTool(c))

NextDispatch ==
  \/ CallDebugPubmedTest \/ CallSearchPapers \/ CallSearchDirect
  \/ CallSearchCredentialed \/ CallDownloadPaper \/ CallGetPaperByDoi
  \/ CallSearchScihub \/ CallCheckScihubMirrors \/ CallGetPlatformStatus
  \/ CallUnknownTool

SpecDispatch == Init /\ [][NextDispatch]_vars

\* The router without broadcast streams, handleRequest returning or throwing.
SessionOrThrow ==
  \E q \in Requests : \E fault \in Faults : HttpSession(q, fault)

NextSession == Options \/ Health \/ SessionOrThrow \/ Unsupported \/ NotFound

SpecSession == Init /\ [][NextSession]_vars

\* The broadcast path without the keep-alive timers, with the handlers of
\* the Server settling: a handler that was handed a request returns (its
\* try/catch/finally), and the event loop then runs the continuation that
\* passes the response to send.
NextRespond == GetStream \/ PostMessage \/ Respond \/ Close

SpecRespond == Init /\ [][NextRespond]_vars /\ WF_vars(Respond)

\* The calls of close so far.
Closes == SelectSeq(history, LAMBDA e : e.op = "close")

TransportClose == Len(Closes) < MaxClose /\ close

\* The broadcast path without the keep-alive timers, with the transport
\* closed at any moment, any number of times.
NextClose == GetStream \/ PostMessage \/ Respond \/ Close \/ TransportClose

SpecClose == Init /\ [][NextClose]_vars

\* ------------------------------------------------- reading the history
Msgs(es) == [k \in 1..Len(es) |-> es[k].msg]

\* A send that found no open connection.
QueuedSend(e) == e.op = "send" /\ e.open = {}

\* The position of the attach before position i (0: none).
PrevAttach(i) ==
  LET before == {j \in 1..(i - 1) : history[j].op = "attach"}
  IN IF before = {} THEN 0 ELSE CHOOSE j \in before : \A k \in before : k <= j

\* The messages sent while no connection was open, between the attach before
\* position i and position i, in send order.
Batch(i) ==
  Msgs(SelectSeq(SubSeq(history, PrevAttach(i) + 1, i - 1), QueuedSend))

\* The connections whose stream holds an event frame of message m.
Holders(m) == {c \in Conns : m \in Range(Events(written[c]))}

WasQueued(m) == \E i \in 1..Len(history) : QueuedSend(history[i]) /\ history[i].msg = m

\* The messages sent while c was in the open set, in send order.  A write to
\* c that throws removes c: it ends the interval.
Due(c) ==
  LET WhileOpen(e) == e.op = "send" /\ c \in e.open \ e.failed
  IN Msgs(SelectSeq(history, WhileOpen))

IsSuffix(p, s) ==
  Len(p) <= Len(s) /\ SubSeq(s, Len(s) - Len(p) + 1, Len(s)) = p

LastEvent == history[Len(history)]

\* ----------------------------------------------------------------- claims
\* C1: the messages sent while no connection is open are all written, in
\* send order, to the first connection attached afterwards, and the pending
\* queue is empty right after the attach.
C1_QueuedReplayedToFirstAttach ==
  /\ \A i \in 1..Len(history) :
       history[i].op = "attach" =>
         IsPrefix(Batch(i), Events(written[history[i].conn]))
  /\ (history # <<>> /\ LastEvent.op = "attach") => messageQueue = <<>>

\* C2: no stream holds the same message twice, and a message that went
\* through the pending queue is written to at most one stream: the queue is
\* replayed once and never to a connection that attaches later.
C2_QueueDrainedOnce ==
  /\ \A c \in Conns : NoDup(Events(written[c]))
  /\ \A m \in Reqs : WasQueued(m) => Cardinality(Holders(m)) <= 1

\* A queued message was replayed to the first stream and a second stream has
\* attached since.
C2_Witness ==
  \E m \in Reqs :
    /\ WasQueued(m)
    /\ Holders(m) = {1}
    /\ 2 \in sseConnections

\* C3: a send whose write to some connections throws removes exactly those
\* connections, does not reject, and writes the message to every other open
\* connection.
C3_WriteFailureIsolated ==
  [][(Len(history') = Len(history) + 1 /\ history'[Len(history')].op = "send") =>
       LET e == history'[Len(history')] IN
         /\ ~e.raised
         /\ sseConnections' = sseConnections \ e.failed
         /\ \A c \in sseConnections \ e.failed :
              written'[c] = Append(written[c], EventFrame(e.msg))
         /\ \A c \in Conns \ (sseConnections \ e.failed) :
              written'[c] = written[c]]_vars

\* A send has just found two open connections, the write to one threw and
\* the other holds the message.
C3_Witness ==
  /\ history # <<>>
  /\ LastEvent.op = "send"
  /\ Cardinality(LastEvent.open) = 2
  /\ Cardinality(LastEvent.failed) = 1
  /\ sseConnections = LastEvent.open \ LastEvent.failed
  /\ \A c \in sseConnections :
       written[c] # <<>> /\ written[c][Len(written[c])] = EventFrame(LastEvent.msg)

\* C4: the stream of each connection ends with the messages sent while it
\* was in the open set, all of them, in the order send was called.
C4_PerConnectionFifo ==
  \A c \in Conns : IsSuffix(Due(c), Events(written[c]))

\* One connection was open for two sends and another for the second only.
C4_Witness ==
  \E c, d \in Conns :
    /\ Len(Due(c)) = 2
    /\ Len(Due(d)) = 1
    /\ Events(written[c]) = Due(c)

\* The first attach after position i of the history (0: none yet).
NextAttach(i) ==
  LET after == {j \in (i + 1)..Len(history) : history[j].op = "attach"}
  IN IF after = {} THEN 0 ELSE CHOOSE j \in after : \A k \in after : j <= k

\* The message sent at position i has reached the streams it is due on: the
\* connections open at the send, or, when none was, the first connection
\* attached since (until then it waits in the queue).
Delivered(i) ==
  LET e == history[i] IN
  IF e.open # {} THEN \A c \in e.open \ e.failed : e.msg \in Range(Events(written[c]))
  ELSE IF NextAttach(i) = 0 THEN e.msg \in Range(messageQueue)
  ELSE e.msg \in Range(Events(written[history[NextAttach(i)].conn]))

OnProtocolEndpoint(q) == q.path \in ProtocolPaths

\* No sessionId in the query and no Mcp-Session-Id header.
NoSessionId(q) == ~q.hasSessionId /\ q.mcpSession = "absent"

\* C5: a well-formed JSON-RPC message POSTed to the protocol endpoint without
\* a session identifier is acknowledged with 202 and no result, a request
\* among them is handed to the server, and every response the server sends
\* reaches the open streams or, when none is open, the first one to attach.
C5_PostAcknowledgedAnsweredOverStream ==
  /\ (last.req.method = "POST" /\ OnProtocolEndpoint(last.req)
        /\ NoSessionId(last.req) /\ last.req.body \in WellFormed) =>
       /\ last.status = 202
       /\ last.responses = <<>>
       /\ last.req.body \in RequestKinds =>
            \/ last.rpcId \in inflight
            \/ \E i \in 1..Len(history) :
                 history[i].op = "send" /\ history[i].msg = Response(last.rpcId)
  /\ \A i \in 1..Len(history) : history[i].op = "send" => Delivered(i)

\* C6: an initialize request POSTed to /mcp without a session identifier is
\* answered on the same exchange with status 200 and the JSON-RPC result.
C6_PostAnsweredOnSameExchange ==
  (last.req.method = "POST" /\ last.req.path = "/mcp" /\ NoSessionId(last.req)
     /\ last.req.body = "initialize") =>
    last.status = 200 /\ last.responses = <<last.rpcId>>

\* C7: a stream opened with GET on /mcp or /sse without a session identifier
\* holds an event frame once it is open, no message having been POSTed; the
\* state looked at is the one after the first keep-alive of that stream,
\* 30 s after it opened.
C7_OpenedStreamHoldsEvent ==
  (last.req.method = "GET" /\ OnProtocolEndpoint(last.req)
     /\ NoSessionId(last.req) /\ last.conn # 0 /\ nextReq = 0
     /\ KeepAliveFrame \in Range(written[last.conn])) =>
    Events(written[last.conn]) # <<>>

\* C8 as stated: on the protocol endpoint a request is delegated to the
\* session transport exactly when it carries a session identifier, whatever
\* its method.
C8_DelegatedWhateverMethod ==
  OnProtocolEndpoint(last.req) =>
    (last.req.hasSessionId <=> last.branch = "session")

\* C8 as amended: on the protocol endpoint a request whose method is not
\* OPTIONS is delegated to the session transport exactly when its query
\* carries sessionId; OPTIONS is answered by the pre-flight branch; no
\* request without sessionId, on any path, is delegated.
C8_DelegatedUnlessOptions ==
  /\ (OnProtocolEndpoint(last.req) /\ last.req.method # "OPTIONS") =>
       (last.req.hasSessionId <=> last.branch = "session")
  /\ last.req.method = "OPTIONS" => last.branch = "options"
  /\ last.branch = "session" =>
       last.req.hasSessionId /\ OnProtocolEndpoint(last.req)

\* A DELETE carrying sessionId has been delegated.
C8_Witness ==
  /\ last.branch = "session"
  /\ last.req.method = "DELETE"
  /\ last.req.hasSessionId

\* C9: a JSON-RPC request the session transport accepted has exactly one
\* response, with the id of the request, on the HTTP response of its
\* exchange when handleRequest has returned.
C9_DelegatedRequestAnswered ==
  (last.branch = "session" /\ last.rpcId # 0) =>
    last.status = 200 /\ last.responses = <<Response(last.rpcId)>>

\* C10: an initialize request that presents no session identifier makes the
\* session transport generate one and associate it with the exchange.
C10_FirstContactCreatesSession ==
  (last.req.method = "POST" /\ OnProtocolEndpoint(last.req)
     /\ NoSessionId(last.req) /\ last.req.body = "initialize") =>
    last.session # 0 /\ sessionId = last.session

\* ------------------------------------------------------------------ C11
\* C11: when handleRequest of a session-delegated exchange throws, the error
\* is logged once and exactly one response is begun on res: the 500 JSON
\* error when the headers were not yet committed, and only the response
\* already committed (no further write) when they were.
C11_FailureAnsweredOnce ==
  (last.branch = "session" /\ caught.thrown) =>
    /\ caught.logged = 1
    /\ caught.writes = 1
    /\ ~caught.headersSent => last.status = 500 /\ last.body = "error-json"

\* handleRequest has thrown after it had committed the headers of a POST.
C11_Witness ==
  /\ last.branch = "session"
  /\ caught.thrown /\ caught.headersSent
  /\ last.req.method = "POST"
  /\ last.status # 500

\* ------------------------------------------------------------------ C12
\* The calls of send that carried the response to request r.
Sends(r) ==
  Cardinality({i \in 1..Len(history) :
                 history[i].op = "send" /\ history[i].msg = Response(r)})

\* C12: every JSON-RPC request with an id POSTed on the broadcast path leads
\* to exactly one call of send with the response of that id: none while the
\* handler runs, never a second one, and eventually one.
C12_RequestAnsweredOnce ==
  /\ [](\A r \in Reqs : Sends(r) <= 1 /\ (r \in inflight => Sends(r) = 0))
  /\ \A r \in Reqs : (nextReq >= r) ~> (Sends(r) = 1)

\* Two requests were answered, one response buffered (no stream was open)
\* and one written to an open stream.
C12_Witness ==
  /\ inflight = {} /\ nextReq >= 2
  /\ \A r \in 1..nextReq : Sends(r) = 1
  /\ \E i, j \in 1..Len(history) :
       /\ history[i].op = "send" /\ history[i].open = {}
       /\ history[j].op = "send" /\ history[j].open # {}

\* ------------------------------------------------------------------ C13
\* The envelope is an error envelope with the given message.
ErrorEnvelope(text) ==
  envelope.kind = "return" /\ envelope.isError /\ envelope.text = text

\* C13: a tools/call whose name is not in the catalog returns the error
\* envelope that names the unknown tool, and no backend operation ran.
C13_UnknownToolTouchesNothing ==
  (~Idle /\ toolCall.name \notin Tools) =>
    ErrorEnvelope("unknown-tool") /\ backendCalls = <<>>

\* An unknown tool was dispatched with well-formed arguments.
C13_Witness ==
  /\ toolCall.name = "no_such_tool" /\ toolCall.args = "valid"
  /\ envelope.isError
  /\ Len(toolLog) = 1

\* ------------------------------------------------------------------ C14
\* C14: a known tool dispatched with arguments that violate its declared
\* schema returns the "invalid arguments" error envelope, and no backend
\* operation ran.
C14_InvalidArgumentsRejected ==
  (~Idle /\ toolCall.name \in Tools /\ Violates(toolCall)) =>
    ErrorEnvelope("invalid-arguments") /\ backendCalls = <<>>

\* ------------------------------------------------------------------ C15
\* C15: whatever the tool name, the arguments (omitted ones included) and
\* the outcome of the backends, the handler ends by returning an envelope,
\* never by throwing, and logToolResponse was called exactly once, with the
\* tool name and the success flag of that ending.
C15_AlwaysEnvelopeLoggedOnce ==
  ~Idle =>
    /\ envelope.kind = "return"
    /\ Len(toolLog) = 1
    /\ toolLog[1].name = toolCall.name
    /\ toolLog[1].success = ~envelope.isError

\* A backend operation has thrown in a case that has no try/catch of its own.
C15_Witness ==
  /\ toolCall.name \in DirectTools
  /\ Len(backendCalls) = 1 /\ backendCalls[1].outcome = "fail"
  /\ envelope.isError
  /\ Len(toolLog) = 1
  /\ toolLog[1].name = toolCall.name /\ ~toolLog[1].success

\* ------------------------------------------------------------------ C16
\* search_papers was dispatched with arguments and with platform 'all' or
\* no platform.
SearchedAll ==
  /\ toolCall.name = "search_papers" /\ toolCall.args # "omitted"
  /\ toolCall.platform \in {"all", "absent"}

\* C16: search_papers over 'all' searches one picked backend; when that
\* search throws it searches arxiv; when arxiv throws too it reports zero
\* papers; the envelope is never an error envelope.
C16_RandomPickFallsBack ==
  SearchedAll =>
    /\ envelope.kind = "return" /\ ~envelope.isError /\ envelope.text = "found"
    /\ Len(backendCalls) >= 1
    /\ backendCalls[1].op = "search"
    /\ backendCalls[1].key \in AvailablePlatforms
    /\ IF backendCalls[1].outcome # "fail"
       THEN Len(backendCalls) = 1 /\ envelope.count = Items(backendCalls[1].outcome)
       ELSE /\ Len(backendCalls) = 2
            /\ backendCalls[2].op = "search" /\ backendCalls[2].key = "arxiv"
            /\ envelope.count = Items(backendCalls[2].outcome)

\* The picked backend and the arxiv fallback have both thrown.
C16_Witness ==
  /\ SearchedAll
  /\ Len(backendCalls) = 2
  /\ backendCalls[1].key = "springer" /\ backendCalls[1].outcome = "fail"
  /\ backendCalls[2].outcome = "fail"
  /\ envelope.count = 0 /\ ~envelope.isError

\* ------------------------------------------------------------------ C17
\* The dispatch enumerated "all platforms".
EnumeratedAll ==
  /\ toolCall.args # "omitted" \/ toolCall.name = "get_platform_status"
  /\ \/ toolCall.name \in {"search_papers", "get_paper_by_doi"}
        /\ toolCall.platform \in {"all", "absent"}
     \/ toolCall.name = "get_platform_status"

\* C17: an "all platforms" enumeration leaves out the alias keys wos and
\* scholar, so that within one call no backend instance is invoked through
\* two registry keys.
C17_AliasesLeftOut ==
  EnumeratedAll =>
    /\ \A i \in 1..Len(backendCalls) : backendCalls[i].key \notin {"wos", "scholar"}
    /\ \A i, j \in 1..Len(backendCalls) :
         backendCalls[i].backend = backendCalls[j].backend
           => backendCalls[i].key = backendCalls[j].key

\* ------------------------------------------------------------------ C18
\* get_paper_by_doi was dispatched with arguments over 'all' (or with no
\* platform).
DoiOverAll ==
  /\ toolCall.name = "get_paper_by_doi" /\ toolCall.args # "omitted"
  /\ toolCall.platform \in {"all", "absent"}

\* C18: get_paper_by_doi over 'all' queries every backend whatever the
\* others did, returns one result per call that found the paper, and returns
\* the non-error "No paper found" envelope when no call found it.
C18_DoiAllSurvivesFailures ==
  DoiOverAll =>
    /\ \A b \in Instances : \E i \in 1..Len(backendCalls) :
         backendCalls[i].backend = b /\ backendCalls[i].op = "getPaperByDoi"
    /\ envelope.kind = "return" /\ ~envelope.isError
    /\ envelope.count = Found(backendCalls)
    /\ envelope.text = IF Found(backendCalls) = 0 THEN "no-paper-found" ELSE "found"

\* The first backend visited has thrown and a later one has found the paper.
C18_Witness ==
  /\ DoiOverAll
  /\ backendCalls[1].outcome = "fail"
  /\ \E i \in 2..Len(backendCalls) : backendCalls[i].outcome = "some"
  /\ envelope.text = "found"

\* ------------------------------------------------------------------ C19
\* C19: download_paper on a registered platform whose capability record has
\* download = false returns the "does not support PDF download" error
\* envelope, and on a platform that is not registered the "unsupported
\* platform" error envelope; in both cases no backend operation ran.
C19_DownloadGated ==
  (toolCall.name = "download_paper" /\ toolCall.args # "omitted") =>
    /\ (toolCall.platform \in Registered /\ ~toolCall.download) =>
         ErrorEnvelope("download-not-supported") /\ backendCalls = <<>>
    /\ toolCall.platform \notin Registered =>
         ErrorEnvelope("unsupported-platform") /\ backendCalls = <<>>

\* ------------------------------------------------------------------ C20
\* The backend requires a credential and none is configured for it.
Uncredentialed(backend) ==
  RequiresCredential(backend) /\ CredentialOf(backend) \notin toolCall.env

\* C20: no operation of a backend that requires a credential is invoked
\* while no credential is configured for it: a dedicated search tool of such
\* a backend returns the missing-credential error envelope instead.
C20_CredentialCheckedFirst ==
  /\ \A i \in 1..Len(backendCalls) : ~Uncredentialed(backendCalls[i].backend)
  /\ (/\ toolCall.name \in CredentialTools /\ toolCall.args # "omitted"
      /\ Uncredentialed(Backend(SearchKey(toolCall.name))))
       => ErrorEnvelope("missing-credential")

\* ------------------------------------------------------------------ C21
\* The backend operations that ran on a backend in the dispatch.
CallsOn(backend) ==
  {i \in 1..Len(backendCalls) : backendCalls[i].backend = backend}

\* C21: get_platform_status calls validateApiKey only on a backend that
\* requires a credential and has one, at most once; its report lists every
\* backend exactly once and no alias key, with 'missing' for a backend that
\* requires a credential and has none and 'not_required' for a backend that
\* requires none, and neither of these was validated.
C21_StatusValidatesOnlyWithKey ==
  toolCall.name = "get_platform_status" =>
    /\ \A i \in 1..Len(backendCalls) :
         /\ backendCalls[i].op = "validateApiKey"
         /\ RequiresCredential(backendCalls[i].backend)
         /\ CredentialOf(backendCalls[i].backend) \in toolCall.env
    /\ \A b \in Instances : Cardinality(CallsOn(b)) <= 1
    /\ ~envelope.isError =>
         /\ \A b \in Instances :
              Cardinality({i \in 1..Len(envelope.report) :
                             Backend(envelope.report[i].platform) = b}) = 1
         /\ \A i \in 1..Len(envelope.report) :
              LET e == envelope.report[i] IN
              /\ e.platform \notin {"wos", "scholar"}
              /\ ~RequiresCredential(e.platform) =>
                   e.apiKeyStatus = "not_required" /\ CallsOn(e.platform) = {}
              /\ Uncredentialed(e.platform) =>
                   e.apiKeyStatus = "missing" /\ CallsOn(e.platform) = {}

\* A status report with one credential configured: springer was validated,
\* wiley is reported missing.
C21_Witness ==
  /\ toolCall.name = "get_platform_status"
  /\ toolCall.env = {"SPRINGER_API_KEY"}
  /\ Len(backendCalls) = 1 /\ backendCalls[1].key = "springer"
  /\ \E i, j \in 1..Len(envelope.report) :
       /\ envelope.report[i] = [platform |-> "springer", apiKeyStatus |-> "valid"]
       /\ envelope.report[j] = [platform |-> "wiley", apiKeyStatus |-> "missing"]

\* ------------------------------------------------------------------ C22
\* C22: every dispatch returns an envelope with content, and when a backend
\* operation has thrown and the content reports that failure, the envelope
\* carries isError.
C22_ReportedFailureIsFlagged ==
  ~Idle =>
    /\ envelope.kind = "return" /\ envelope.text # ""
    /\ ((\E i \in 1..Len(backendCalls) : backendCalls[i].outcome = "fail")
          /\ envelope.failure) => envelope.isError

\* ------------------------------------------------------------------ C23
\* The step is a call of the transport that appended e to the history.
Appends(op) ==
  Len(history') = Len(history) + 1 /\ history'[Len(history')].op = op

\* A send whose write to a connection threw leaves it out of the open set.
RemovedOnSendFailure ==
  Appends("send") => history'[Len(history')].failed \cap sseConnections' = {}

\* An attach whose replay wrote fewer frames than were queued (a write
\* threw) leaves the connection out of the open set.
RemovedOnReplayFailure ==
  Appends("attach") =>
    LET res == history'[Len(history')].conn IN
    Len(written'[res]) < Len(written[res]) + Len(messageQueue)
      => res \notin sseConnections'

\* A keep-alive firing that wrote nothing (the write threw) leaves the
\* connection of that timer out of the open set.
RemovedOnKeepAliveFailure ==
  (kaCount' = kaCount + 1 /\ written' = written) =>
    (keepAlive \ keepAlive') \cap sseConnections' = {}

\* A connection whose peer has closed is out of the open set.
RemovedOnPeerClose == (closed' \ closed) \cap sseConnections' = {}

\* A connection that was opened and is no longer in the open set is not
\* written to and does not come back.
NeverReused ==
  \A c \in 1..nextConn :
    c \notin sseConnections => written'[c] = written[c] /\ c \notin sseConnections'

\* C23: a broadcast connection leaves the open set on a write failure in
\* send, in the replay of attach or in a keep-alive write, and on the close
\* of its peer; once out it is never written to again and never re-added.
C23_RemovedOnFailureNeverReused ==
  [][/\ RemovedOnSendFailure
     /\ RemovedOnReplayFailure
     /\ RemovedOnKeepAliveFailure
     /\ RemovedOnPeerClose
     /\ NeverReused]_vars

\* ------------------------------------------------------------------ C24
\* The deliveries of the closure signal so far.
Signals == Len(SelectSeq(Closes, LAMBDA e : e.signalled))

\* C24: after close() every connection that was open has been ended and the
\* open set is empty, and onclose has been delivered once in total, however
\* many times close() was called.
C24_ClosedOnceForAll ==
  /\ (history # <<>> /\ LastEvent.op = "close") =>
       LastEvent.ended = LastEvent.open /\ sseConnections = {}
  /\ Closes # <<>> => Signals = 1

\* The step has handled an HTTP request.
Handled == last' # last

\* The state of the two transports and of the Server behind them.
TransportState ==
  <<sseConnections, messageQueue, onmessage, written, history, keepAlive,
    closed, nextConn, inflight, sessionId>>

\* ------------------------------------------------------------------ C26
\* Every branch of the request handler, the throwing session branch included.
NextHeaders ==
  \/ Options \/ Health \/ SessionOrThrow \/ RouterGetStream
  \/ RouterPostMessage \/ Unsupported \/ NotFound

SpecHeaders == Init /\ [][NextHeaders]_vars

\* The response carries the header with a value that names the word.
Carries(header, value) ==
  header \in DOMAIN last.headers /\ last.headers[header] = value

\* C26: the response of every branch carries Access-Control-Allow-Origin *,
\* Access-Control-Allow-Methods 'GET, POST, DELETE, OPTIONS', and allow and
\* expose headers that name the session identifier header X-Session-Id.
C26_CorsOnEveryResponse ==
  last.status # 0 =>
    /\ Carries("Access-Control-Allow-Origin", "*")
    /\ Carries("Access-Control-Allow-Methods", "GET, POST, DELETE, OPTIONS")
    /\ Carries("Access-Control-Allow-Headers", "Content-Type, X-Session-Id")
    /\ Carries("Access-Control-Expose-Headers", "X-Session-Id")

\* The catch of the session branch has answered 500 with a content type of
\* its own.
C26_Witness ==
  /\ last.status = 500
  /\ caught.thrown /\ caught.writes = 1
  /\ "Content-Type" \in DOMAIN last.headers

\* ------------------------------------------------------------------ C27
\* C27: GET /health is answered 200 with the health payload whatever
\* connections are open and whatever is queued, and handling it dispatches no
\* tool and leaves the state of both transports as it was.
C27_HealthAlwaysAnswers ==
  [][(Handled /\ last'.req.method = "GET" /\ last'.req.path = "/health") =>
       /\ last'.branch = "health"
       /\ last'.status = 200 /\ last'.body = "health-json"
       /\ TransportState' = TransportState
       /\ UNCHANGED engineVars]_vars

\* The health check was answered while a response was waiting in the queue.
C27_Witness ==
  /\ last.branch = "health" /\ last.status = 200
  /\ messageQueue # <<>>

\* ------------------------------------------------------------------ C28
\* The request matches none of the routes: an unknown path, a method other
\* than GET on /health, or a method other than GET, POST and OPTIONS on the
\* protocol endpoint without a session identifier.
Unmatched(q) ==
  /\ q.method # "OPTIONS"
  /\ \/ q.path \notin ProtocolPaths \cup {"/health"}
     \/ q.path = "/health" /\ q.method # "GET"
     \/ /\ q.path \in ProtocolPaths /\ ~q.hasSessionId
        /\ q.method \notin {"GET", "POST"}

\* C28: a request that matches no route is answered 404 or 400 with a JSON
\* error body, and the state of the transports is as it was.
C28_UnmatchedGetsJsonError ==
  [][(Handled /\ Unmatched(last'.req)) =>
       /\ last'.status \in {400, 404}
       /\ last'.body = "error-json"
       /\ last'.headers["Content-Type"] = "application/json"
       /\ TransportState' = TransportState]_vars

\* ------------------------------------------------------------------ C29
\* The request is a POST on the protocol endpoint, without a session
\* identifier, whose body JSON.parse rejects.
Unparseable(q) ==
  /\ q.method = "POST" /\ q.path \in ProtocolPaths /\ ~q.hasSessionId
  /\ q.body = "malformed"

\* C29: a POST without session identifier whose body is not JSON is answered
\* with one 400 and a JSON error body; the inbound handler is not invoked,
\* the open connections and the queue are as they were, and the server goes
\* on answering requests afterwards.
C29_MalformedPostRejected ==
  /\ [][(Handled /\ Unparseable(last'.req)) =>
          /\ last'.status = 400 /\ last'.body = "error-json"
          /\ last'.headers["Content-Type"] = "application/json"
          /\ last'.rpcId = 0 /\ inflight' = inflight
          /\ TransportState' = TransportState]_vars
  /\ [](Unparseable(last.req) => ENABLED Health /\ ENABLED Options)

\* The malformed POST was rejected while a stream was open.
C29_Witness ==
  /\ Unparseable(last.req) /\ last.status = 400
  /\ sseConnections # {}

\* ------------------------------------------------------------------ C30
\* The call of request r is in flight and c is the one open stream: the
\* stream of the client that has posted r.
AwaitedOn(r, c) == r \in inflight /\ sseConnections = {c}

\* The call of request r is in flight and no stream is open any more.
Orphaned(r) == r \in inflight /\ sseConnections = {}

\* C30: when the stream of the requesting client closes while the call is
\* in flight, the call still completes (it leaves the in-flight set only
\* through one send), and its response is never written to any connection,
\* then or later.
C30_OrphanedResultNeverWritten ==
  /\ [][\A r \in inflight : r \notin inflight' => Appends("send")]_vars
  /\ \A r \in Reqs : \A c \in Conns :
       [](AwaitedOn(r, c) =>
            [](Orphaned(r) => [](Holders(Response(r)) = {} /\ Sends(r) <= 1)))

\* ------------------------------------------------------------------ C25
\* C25: an OPTIONS request, on whatever path and with or without a session
\* identifier, is answered by the pre-flight branch with 200 and an empty
\* body, and the state of both transports is as it was.
C25_OptionsTouchesNothing ==
  [][(Handled /\ last'.req.method = "OPTIONS") =>
       /\ last'.branch = "options"
       /\ last'.status = 200 /\ last'.body = "empty"
       /\ TransportState' = TransportState]_vars

\* An OPTIONS request with a session identifier was answered on the protocol
\* endpoint while a stream was open.
C25_Witness ==
  /\ last.req.method = "OPTIONS" /\ last.req.hasSessionId
  /\ last.req.path = "/mcp"
  /\ last.status = 200
  /\ sseConnections # {}

\* ------------------------------------------------------------------ C32
\* Concurrent tools/call dispatches: each starts with any tool name and is
\* resumed when its backend settles, in any interleaving.
Start == \E d \in Dispatches : \E name \in Tools \cup {"no_such_tool"} : Begin(d, name)

Settle == \E d \in Dispatches : Resume(d)

NextRegistry == Start \/ Settle

SpecRegistry == Init /\ [][NextRegistry]_vars

Started == {d \in Dispatches : dispatches[d].pc # "idle"}

\* C32: whatever the interleaving of the dispatches, the registry is
\* constructed at most once, and every dispatch that has started holds the
\* one registry object that the module variable holds.
C32_RegistryBuiltOnce ==
  /\ constructed <= 1
  /\ \A d \in Started :
       dispatches[d].registry = searchers /\ dispatches[d].registry # 0

\* A second dispatch has started while the first is suspended on its backend.
C32_Witness ==
  \E d, e \in Dispatches :
    /\ d # e
    /\ dispatches[d].pc = "suspended" /\ dispatches[e].pc = "suspended"
    /\ constructed = 1

\* ------------------------------------------------------------------ C33
\* logAccess(method, pathname, sessionId, status): 0 is a status not given.
LogEntry(q, status) ==
  [method |-> q.method, path |-> q.path, sessionId |-> q.xSessionId,
   status |-> status]

\* The status the branch passes to logAccess after the entry call, which
\* passes none: OPTIONS returns without a second call, the catch of the
\* session branch passes 500, the other branches pass the status they write.
BranchLog(q, branch, status, thrown) ==
  IF branch = "options" THEN <<>>
  ELSE IF thrown THEN <<LogEntry(q, 500)>>
  ELSE <<LogEntry(q, status)>>

\* The logAccess calls made for the exchange handled last, in order.
AccessLog ==
  IF last.status = 0 THEN <<>>
  ELSE <<LogEntry(last.req, 0)>>
         \o BranchLog(last.req, last.branch, last.status, caught.thrown)

\* C33: for every request handled, in whatever branch, an access-log entry
\* holds the method, the path and the status code of the response.
C33_AccessLogHasFinalStatus ==
  last.status # 0 => LogEntry(last.req, last.status) \in Range(AccessLog)

\* ------------------------------------------------------------------ C34
\* The requests with and without the X-Session-Id header.
HeaderRequests ==
  {[q EXCEPT !.xSessionId = x] : q \in Requests, x \in BOOLEAN}

\* Every branch of the request handler under these requests.
NextAccess ==
  \/ \E q \in HeaderRequests : HttpOptions(q)
  \/ \E q \in HeaderRequests : HttpHealth(q)
  \/ \E q \in HeaderRequests : \E fault \in Faults : HttpSession(q, fault)
  \/ \E q \in HeaderRequests : \E failedAt \in SUBSET (1..Len(messageQueue)) :
       RouterBudget /\ HttpGetStream(q, failedAt)
  \/ \E q \in HeaderRequests : RouterBudget /\ HttpPostMessage(q)
  \/ \E q \in HeaderRequests : HttpUnsupported(q)
  \/ \E q \in HeaderRequests : HttpNotFound(q)

SpecAccess == Init /\ [][NextAccess]_vars

\* C34: a request to the protocol endpoint (pre-flight aside) is delegated
\* to the session transport if and only if the session identifier passed to
\* the access log for it, the X-Session-Id header, is present.
C34_DelegatedIffLoggedSession ==
  (last.req.path \in ProtocolPaths /\ last.req.method # "OPTIONS") =>
    \A e \in Range(AccessLog) : (last.branch = "session") <=> e.sessionId

\* ------------------------------------------------------------------ C35
\* C35: a message passed to send has been written to at least one
\* connection or is in the pending queue; when connections were open and
\* every write to them threw, it is in the queue.
C35_SentIsWrittenOrQueued ==
  (history # <<>> /\ LastEvent.op = "send") =>
    \/ SendWritten(LastEvent.open, LastEvent.failed) # {}
    \/ LastEvent.msg \in Range(messageQueue)

\* ------------------------------------------------------------------ C36
\* C36: from the first request on the inbound handler is registered on the
\* broadcast transport and stays so, and every JSON-RPC request that is
\* acknowledged with 202 has been handed to it.
C36_HandlerRegisteredBeforeListen ==
  /\ []onmessage
  /\ [][(Handled /\ last'.branch = "post" /\ last'.status = 202
           /\ last'.req.body \in RequestKinds) =>
          last'.rpcId \in inflight' \ inflight]_vars

\* A request was acknowledged and handed over after the transport had been
\* closed once.
C36_Witness ==
  /\ last.branch = "post" /\ last.status = 202
  /\ last.rpcId \in inflight
  /\ Closes # <<>>

\* ------------------------------------------------------------------ C37
\* C37: a search_papers call over 'all' searches at most twice, and no
\* backend more than once: the arxiv fallback runs only after a pick other
\* than arxiv.
C37_FallbackOnlyAfterOtherPick ==
  SearchedAll =>
    /\ Len(backendCalls) <= 2
    /\ \A i, j \in 1..Len(backendCalls) :
         backendCalls[i].backend = backendCalls[j].backend => i = j

\* ------------------------------------------------------------------ C38
\* C38: a tool whose schema requires no parameter, called without the
\* arguments object, returns an envelope that is no error envelope when no
\* backend operation of the dispatch has thrown.
C38_NoArgumentsNeeded ==
  (/\ toolCall.name \in NoRequired /\ toolCall.args = "omitted"
   /\ \A i \in 1..Len(backendCalls) : backendCalls[i].outcome # "fail") =>
    envelope.kind = "return" /\ ~envelope.isError

\* ------------------------------------------------------------------ C39
\* C39: the success flag passed to logToolResponse is false exactly when
\* the envelope returned has isError, and an error message is passed exactly
\* then.
C39_LoggedFlagMatchesEnvelope ==
  ~Idle =>
    /\ Len(toolLog) = 1
    /\ ~toolLog[1].success <=> envelope.isError
    /\ toolLog[1].errorMessage # "undefined" <=> envelope.isError
    /\ envelope.isError => toolLog[1].errorMessage = envelope.text

\* A credentialed search was refused for its missing key and logged so.
C39_Witness ==
  /\ toolCall.name \in CredentialTools
  /\ envelope.isError
  /\ Len(toolLog) = 1
  /\ ~toolLog[1].success /\ toolLog[1].errorMessage = "missing-credential"

\* ------------------------------------------------------------------ C31
\* C31: between transport operations the pending queue is non-empty only
\* while no connection is open; every queued message was put there by a send
\* that found no open connection, and right after an attach the queue is
\* empty.
C31_QueueOnlyWhileNoneOpen ==
  /\ messageQueue # <<>> => sseConnections = {}
  /\ \A i \in 1..Len(messageQueue) : WasQueued(messageQueue[i])
  /\ (history # <<>> /\ LastEvent.op = "attach") => messageQueue = <<>>

\* A message is queued after a connection was open and has closed.
C31_Witness ==
  /\ messageQueue # <<>>
  /\ closed # {}
  /\ \E i \in 1..Len(history) : history[i].op = "attach"
====
